---- MODULE Spec2Model ----
(***************************************************************************)
(* TobiiGlassesController (tobiiglassesctrl/controller.py): construction   *)
(* (discovery over the interfaces, socket set-up, status poll), the waits  *)
(* for a recording and for a calibration status, the streaming session     *)
(* (keepalive / receive / video keepalive threads, start, stop, close) and *)
(* the latest-sample store filled by __refresh_data__.                     *)
(*                                                                         *)
(* A JSON message is a function from its keys to its values, as the Python *)
(* dict is: "ts" \in DOMAIN m says that the key is present.                *)
(***************************************************************************)
EXTENDS Integers, FiniteSets, Sequences, TLC

\* ------------------------------------------------------------ bounds
\* largest timestamp a message carries
MaxTs == 1
\* number of direct __refresh_data__ calls of one behaviour of MergeSpec
MaxMerges == 2
\* largest timestamp of a datagram of the stream
MaxStreamTs == 1
\* largest number of network interfaces netifaces.interfaces() lists
MaxIfaces == 2
\* the sends and receives a thread makes after the flag went false are
\* counted up to this number
MaxLate == 2

\* ------------------------------------------------------ the messages
ChannelKeys == {"gy", "ac", "pc", "pd", "gd", "gp", "gp3", "pts", "vts", "pv"}

EyeKeys == {"pc", "pd", "gd"}

\* the key sets of the messages merged: no key, one key, and datagrams
\* that carry several keys; every channel key is in one of them
KeySets ==
    {{}, {"gy", "ac"}, {"gp"}, {"gp3", "pts"}, {"vts", "pv"},
     {"pc", "pd", "gd"}, {"gp", "pc"}}

\* A ts that is no number (JSON null, a string), which the comparison of
\* line 215 cannot order with a number, is written -2.
NotNumbers == {-2}

Comparable(t) == t \notin NotNumbers

\* every choice of ts, s and eye, each of which may be missing; ts is a
\* number or not; s is 0 (valid) or 1; eye is "left", "right" or a value
\* that names no eye
MetaSets ==
    { [f \in D |-> IF f = "ts" THEN t ELSE IF f = "s" THEN st ELSE e] :
        D \in SUBSET {"ts", "s", "eye"}, t \in (0..MaxTs) \cup NotNumbers,
        st \in {0, 1},
        e \in {"left", "right", "both"} }

MkMsg(K, meta) ==
    [f \in K \cup DOMAIN meta |-> IF f \in DOMAIN meta THEN meta[f] ELSE "v"]

\* an eye field comes with the eye channels only
Messages ==
    { MkMsg(p[1], p[2]) :
        p \in { q \in KeySets \X MetaSets :
                  "eye" \in DOMAIN q[2] => q[1] \cap EyeKeys # {} } }

VARIABLES
    pc,            \* where the application's thread is
    exc,           \* the exception the constructor raised, "none" if none
    address,       \* self.address
    iface_name,    \* self.iface_name
    video_scene,   \* self.video_scene
    found,         \* what __discover_device__ returned: (data, address)
    interfaces,    \* __discover_device__: what each interface listed does
    idx,           \* __discover_device__: the place of i in that list
    timeout,       \* the timeout argument of the constructor / of the wait
    streaming,     \* self.streaming
    data,          \* self.data, the snapshot
    jsondata,      \* the argument of the latest __refresh_data__ call
    refresh_exc,   \* the exception that call let out, "none" if none
    ncalls,        \* direct calls of __refresh_data__ made so far
    data_socket,   \* self.data_socket: "none", "open" or "closed"
    video_socket,  \* self.video_socket
    thread,        \* where the threads self.td, self.tg and self.tv are
    orphans,       \* live threads no attribute of self refers to any more
    late,          \* per kind of thread: the keepalive messages sent, or the
                   \* datagrams received and merged, since the flag went false
    ret_to,        \* where stop_streaming returns to
    caller,        \* who called wait_for_status
    values,        \* wait_for_status: the accepted values
    running,       \* wait_for_status: running
    response,      \* wait_for_status: what urlopen gave
    json_data,     \* wait_for_status: json_data[key]
    wfs_ret,       \* the value wait_for_status returned
    cal_ret        \* the value wait_until_calibration_is_done returned

disc == <<interfaces, idx>>

session ==
    <<address, iface_name, video_scene, found, disc, data_socket, video_socket>>

store == <<data, jsondata, refresh_exc, ncalls>>

threads == <<thread, orphans, late>>

wfs == <<caller, values, running, response, json_data, wfs_ret, cal_ret>>

vars == <<pc, exc, timeout, streaming, ret_to, session, store, threads, wfs>>

\* ------------------------------------------------------ the snapshot
nd == [f \in {"ts"} |-> -1]

InitData ==
    [mems |-> [ac |-> nd, gy |-> nd],
     right_eye |-> [pc |-> nd, pd |-> nd, gd |-> nd],
     left_eye |-> [pc |-> nd, pd |-> nd, gd |-> nd],
     gp |-> nd, gp3 |-> nd, pts |-> nd, vts |-> nd]

\* MergeNested without the test of the status
MergeNestedAnyStatus(d, m, key, group) ==
    IF /\ key \in DOMAIN m
       /\ "ts" \in DOMAIN m
       /\ group \in DOMAIN d
       /\ Comparable(m["ts"])
       /\ d[group][key]["ts"] < m["ts"]
    THEN [d EXCEPT ![group][key] = m]
    ELSE d

\* one try block of __refresh_data__ for a channel kept under
\* self.data[group][key]; any KeyError leaves the snapshot as it is
MergeNested(d, m, key, group) ==
    IF /\ key \in DOMAIN m
       /\ "ts" \in DOMAIN m
       /\ group \in DOMAIN d
       /\ Comparable(m["ts"])
       /\ d[group][key]["ts"] < m["ts"]
       /\ "s" \in DOMAIN m
       /\ m["s"] = 0
    THEN [d EXCEPT ![group][key] = m]
    ELSE d

\* MergeEye with the eye discriminator ignored: both eyes are written
MergeEyeBoth(d, m, key) ==
    MergeNested(MergeNested(d, m, key, "left_eye"), m, key, "right_eye")

\* the try block of an eye channel: the group is jsondata['eye'] + '_eye'
MergeEye(d, m, key) ==
    IF "eye" \in DOMAIN m
    THEN MergeNested(d, m, key, m["eye"] \o "_eye")
    ELSE d

\* MergeTop without the comparison of the timestamps
MergeTopAnyTs(d, m, key) ==
    IF /\ key \in DOMAIN m
       /\ "ts" \in DOMAIN m
       /\ key \in DOMAIN d
       /\ Comparable(m["ts"])
       /\ "s" \in DOMAIN m
       /\ m["s"] = 0
    THEN [d EXCEPT ![key] = m]
    ELSE d

\* MergeTop storing the channel's field and the timestamp, not the message
MergeTopFieldOnly(d, m, key) ==
    IF /\ key \in DOMAIN m
       /\ "ts" \in DOMAIN m
       /\ key \in DOMAIN d
       /\ Comparable(m["ts"])
       /\ d[key]["ts"] < m["ts"]
       /\ "s" \in DOMAIN m
       /\ m["s"] = 0
    THEN [d EXCEPT ![key] = [f \in {key, "ts"} |-> m[f]]]
    ELSE d

\* the try block of a channel kept under self.data[key]
MergeTop(d, m, key) ==
    IF /\ key \in DOMAIN m
       /\ "ts" \in DOMAIN m
       /\ key \in DOMAIN d
       /\ Comparable(m["ts"])
       /\ d[key]["ts"] < m["ts"]
       /\ "s" \in DOMAIN m
       /\ m["s"] = 0
    THEN [d EXCEPT ![key] = m]
    ELSE d

\* What the body of a try block raises ("none": nothing), for a channel
\* kept under self.data[group][key]: KeyError from jsondata[key],
\* jsondata['ts'] and self.data[group], TypeError from the comparison with
\* a ts that is no number, KeyError from jsondata['s'], which is read only
\* when the comparison gave true
NestedRaises(d, m, key, group) ==
    IF key \notin DOMAIN m \/ "ts" \notin DOMAIN m \/ group \notin DOMAIN d
    THEN "KeyError"
    ELSE IF ~Comparable(m["ts"]) THEN "TypeError"
    ELSE IF d[group][key]["ts"] < m["ts"] /\ "s" \notin DOMAIN m THEN "KeyError"
    ELSE "none"

\* the same for an eye channel: jsondata['eye'] is read after jsondata['ts']
EyeRaises(d, m, key) ==
    IF key \notin DOMAIN m \/ "ts" \notin DOMAIN m \/ "eye" \notin DOMAIN m
    THEN "KeyError"
    ELSE NestedRaises(d, m, key, m["eye"] \o "_eye")

\* the same for a channel kept under self.data[key]
TopRaises(d, m, key) ==
    IF key \notin DOMAIN m \/ "ts" \notin DOMAIN m \/ key \notin DOMAIN d
    THEN "KeyError"
    ELSE IF ~Comparable(m["ts"]) THEN "TypeError"
    ELSE IF d[key]["ts"] < m["ts"] /\ "s" \notin DOMAIN m THEN "KeyError"
    ELSE "none"

\* an except clause that names KeyError
CatchesKeyError(e) == e = "KeyError"

\* the except clause of each try block is bare: it catches every exception
Catches(e) == TRUE

\* the ten try statements of __refresh_data__, in the order of the code:
\* where the channel is kept, and its key
Blocks ==
    <<<<"mems", "gy">>, <<"mems", "ac">>,
      <<"eye", "pc">>, <<"eye", "pd">>, <<"eye", "gd">>,
      <<"top", "gp">>, <<"top", "gp3">>, <<"top", "pts">>, <<"top", "vts">>,
      <<"top", "pv">>>>

\* what the body of try statement b raises
BodyRaises(d, m, b) ==
    IF b[1] = "mems" THEN NestedRaises(d, m, b[2], "mems")
    ELSE IF b[1] = "eye" THEN EyeRaises(d, m, b[2])
    ELSE TopRaises(d, m, b[2])

\* the snapshot try statement b leaves
Body(d, m, b) ==
    IF b[1] = "mems" THEN MergeNested(d, m, b[2], "mems")
    ELSE IF b[1] = "eye" THEN MergeEye(d, m, b[2])
    ELSE MergeTop(d, m, b[2])

\* One try statement, reached with the snapshot r.d: an exception of its
\* body that its except clause does not catch goes out of
\* __refresh_data__ (r.exc), else the statement leaves its snapshot.
Try(r, m, b) ==
    IF BodyRaises(r.d, m, b) # "none" /\ ~Catches(BodyRaises(r.d, m, b))
    THEN [d |-> r.d, exc |-> BodyRaises(r.d, m, b)]
    ELSE [d |-> Body(r.d, m, b), exc |-> "none"]

\* the try statements from the i-th on; none is reached once an exception
\* is on its way out (x is what the i-th statement leaves)
RECURSIVE RefreshFrom(_, _, _)
RefreshFrom(r, m, i) ==
    IF i > Len(Blocks) \/ r.exc # "none" THEN r
    ELSE CHOOSE out \in { RefreshFrom(x, m, i + 1) : x \in {Try(r, m, Blocks[i])} } :
           TRUE

\* __refresh_data__
Refresh(d, m) == RefreshFrom([d |-> d, exc |-> "none"], m, 1)

\* the snapshot __refresh_data__ leaves
RefreshData(d, m) == Refresh(d, m).d

\* ----------------------------------------------------- construction
\* An address is a record: ip says whether the text holds a ':' (IPv6),
\* scope is the interface name after a '%' ("" when there is no '%').
NoAddress == [ip |-> "None", scope |-> ""]

Addresses ==
    {[ip |-> "v4", scope |-> ""], [ip |-> "v6", scope |-> ""],
     [ip |-> "v6", scope |-> "eth0"]}

\* __discover_device__ has not run
NotRun == [data |-> "unset", address |-> NoAddress]

\* wait_until_calibration_is_done, line 569: the values of ca_state it
\* waits for, and those of line 571
CalibrationStates ==
    {"calibrating", "calibrated", "stale", "uncalibrated", "failed"}

CalibrationFailed == {"uncalibrated", "stale", "failed"}

\* what the device may answer to a poll: a sys_status to the constructor,
\* a ca_state to wait_until_calibration_is_done, a rec_state to
\* wait_for_recording_status
Replies(who) ==
    IF who = "connect" THEN {"ok", "booting"}
    ELSE IF who = "calibration" THEN CalibrationStates
    ELSE {"starting", "recording", "done"}

\* the status_array arguments of wait_for_recording_status
StatusArrays == {{"recording"}, {"recording", "done"}}

Init ==
    /\ pc = "init"
    /\ exc = "none"
    /\ address \in {NoAddress} \cup Addresses
    /\ iface_name = "None"
    /\ video_scene \in BOOLEAN
    /\ found = NotRun
    /\ interfaces = <<>>
    /\ idx = 0
    /\ timeout \in {"None", "given"}
    /\ streaming = FALSE
    /\ data = InitData
    /\ jsondata = nd
    /\ refresh_exc = "none"
    /\ ncalls = 0
    /\ data_socket = "none"
    /\ video_socket = "none"
    /\ thread = [td |-> "none", tg |-> "none", tv |-> "none"]
    /\ orphans = <<>>
    /\ late = [k \in {"td", "tg", "tv"} |-> 0]
    /\ ret_to = "idle"
    /\ caller = "none"
    /\ values = {}
    /\ running = FALSE
    /\ response = "none"
    /\ json_data = "none"
    /\ wfs_ret = "none"
    /\ cal_ret = "none"

\* the constructor raises
Raise(e) ==
    /\ pc' = "raised"
    /\ exc' = e

\* __init__, line 81: discovery runs when no address was given
CtorBegin ==
    /\ pc = "init"
    /\ pc' = IF address = NoAddress THEN "discover" ELSE "set_url"
    /\ UNCHANGED <<exc, timeout, streaming, ret_to, session, store, threads, wfs>>

\* What an interface of the list does in the loop of __discover_device__:
\* it has no scoped IPv6 address and is passed over (lines 132-133); one
\* of getaddrinfo, socket, setsockopt and bind raises (lines 135-139);
\* sendto raises (143); recvfrom times out (146); the reply is no JSON
\* (147); or a JSON reply comes in.
IfaceSkipped == {"no ipv6"}

IfaceSetupErrors == {"setup error"}

IfaceTryErrors == {"send error", "timeout", "bad reply"}

Ifaces == IfaceSkipped \cup IfaceSetupErrors \cup IfaceTryErrors \cup {"reply"}

IfaceLists == UNION { [1..n -> Ifaces] : n \in 0..MaxIfaces }

\* the frame of __discover_device__ is left
LeaveDiscovery ==
    /\ interfaces' = <<>>
    /\ idx' = 0

\* __discover_device__, lines 123-131: without netifaces exit(1) raises
\* SystemExit; else the loop over netifaces.interfaces() begins
DiscoverBegin ==
    /\ pc = "discover"
    /\ \/ /\ Raise("SystemExit")
          /\ UNCHANGED disc
       \/ /\ \E l \in IfaceLists : interfaces' = l
          /\ idx' = 1
          /\ pc' = "discover_iface"
          /\ UNCHANGED exc
    /\ UNCHANGED <<address, iface_name, video_scene, found, data_socket, video_socket>>
    /\ UNCHANGED <<timeout, streaming, ret_to, store, threads, wfs>>

\* the try statement of lines 141-152 has a bare except; lines 134-140
\* stand before it, inside no try statement
SwallowedInDiscovery == IfaceTryErrors

\* __discover_device__, lines 131-155: one turn of the loop, or the
\* return of (None, None) after the last one
DiscoverInterface ==
    /\ pc = "discover_iface"
    /\ IF idx > Len(interfaces)
       THEN /\ found' = [data |-> "None", address |-> NoAddress]
            /\ pc' = "discovered"
            /\ LeaveDiscovery
            /\ UNCHANGED exc
       ELSE IF interfaces[idx] \in IfaceSkipped \cup SwallowedInDiscovery
       THEN /\ idx' = idx + 1
            /\ UNCHANGED <<pc, exc, found, interfaces>>
       ELSE IF interfaces[idx] = "reply"
       THEN /\ \E d \in {"ipv4", "no ipv4"}, a \in {x \in Addresses : x.ip = "v6"} :
                 found' = [data |-> d, address |-> a]
            /\ pc' = "discovered"
            /\ LeaveDiscovery
            /\ UNCHANGED exc
       ELSE /\ Raise("OSError")
            /\ LeaveDiscovery
            /\ UNCHANGED found
    /\ UNCHANGED <<address, iface_name, video_scene, data_socket, video_socket>>
    /\ UNCHANGED <<timeout, streaming, ret_to, store, threads, wfs>>

\* __init__, lines 83-89
Discovered ==
    /\ pc = "discovered"
    /\ IF found.address = NoAddress
       THEN /\ Raise("ConnectionError")
            /\ UNCHANGED address
       ELSE /\ address' = IF found.data = "ipv4" THEN [ip |-> "v4", scope |-> ""]
                          ELSE found.address
            /\ pc' = "set_url"
            /\ UNCHANGED exc
    /\ found' = NotRun
    /\ UNCHANGED <<iface_name, video_scene, data_socket, video_socket, disc>>
    /\ UNCHANGED <<timeout, streaming, ret_to, store, threads, wfs>>

\* __init__, lines 90-95: the interface name is what follows '%'; on
\* win32 the address loses it
SetUrl ==
    /\ pc = "set_url"
    /\ IF address.scope # ""
       THEN /\ iface_name' = address.scope
            /\ \E win32 \in BOOLEAN :
                 address' = IF win32 THEN [address EXCEPT !.scope = ""]
                            ELSE address
       ELSE UNCHANGED <<address, iface_name>>
    /\ pc' = "connect"
    /\ UNCHANGED <<video_scene, found, data_socket, video_socket, disc>>
    /\ UNCHANGED <<exc, timeout, streaming, ret_to, store, threads, wfs>>

\* __mksock__, line 186: the socket is bound to the interface (setsockopt
\* with option 25, SO_BINDTODEVICE) whenever the peer is IPv6; getaddrinfo
\* may fail; for an IPv6 peer setsockopt is
\* called with self.iface_name + '\0', a TypeError when iface_name is
\* None and, where str is not bytes, in every case; a socket.error is
\* swallowed
BindAttempted == address.ip = "v6"

MkSockResults ==
    {"gaierror"} \cup
    (IF BindAttempted
     THEN IF iface_name = "None" THEN {"TypeError"} ELSE {"open", "TypeError"}
     ELSE {"open"})

\* __connect__, line 104
ConnectDataSocket ==
    /\ pc = "connect"
    /\ \E r \in MkSockResults :
         IF r = "open"
         THEN /\ data_socket' = "open"
              /\ pc' = IF video_scene THEN "connect_video" ELSE "connect_wait"
              /\ UNCHANGED exc
         ELSE /\ Raise(r)
              /\ UNCHANGED data_socket
    /\ UNCHANGED <<address, iface_name, video_scene, found, video_socket, disc>>
    /\ UNCHANGED <<timeout, streaming, ret_to, store, threads, wfs>>

\* __connect__, lines 105-106
ConnectVideoSocket ==
    /\ pc = "connect_video"
    /\ \E r \in MkSockResults :
         IF r = "open"
         THEN /\ video_socket' = "open"
              /\ pc' = "connect_wait"
              /\ UNCHANGED exc
         ELSE /\ Raise(r)
              /\ UNCHANGED video_socket
    /\ UNCHANGED <<address, iface_name, video_scene, found, data_socket, disc>>
    /\ UNCHANGED <<timeout, streaming, ret_to, store, threads, wfs>>

\* ----------------------------------------------------- wait_for_status
\* the value wait_for_status returns when urlopen raises URLError: -1
Sentinel == "-1"

\* a call of wait_for_status(api_action, key, vals, t)
CallWaitForStatus(who, vals, t) ==
    /\ caller' = who
    /\ values' = vals
    /\ timeout' = t
    /\ running' = TRUE
    /\ response' = "none"
    /\ json_data' = "none"
    /\ wfs_ret' = "none"
    /\ pc' = "wfs_urlopen"
    /\ UNCHANGED cal_ret

\* __connect__, line 107: wait_until_status_is_ok(timeout), line 579
ConnectWait ==
    /\ pc = "connect_wait"
    /\ CallWaitForStatus("connect", {"ok"}, timeout)
    /\ UNCHANGED <<exc, streaming, ret_to, session, store, threads>>

\* wait_for_status, line 556: urlopen raises URLError, raises something
\* else (a read that times out; so do json.loads and json_data[key] of
\* lines 561-562), or gives the polled value
Urlopen ==
    /\ pc = "wfs_urlopen"
    /\ \E r \in {"URLError", "error"} \cup Replies(caller) : response' = r
    /\ pc' = "wfs_response"
    /\ UNCHANGED <<caller, values, running, json_data, wfs_ret, cal_ret>>
    /\ UNCHANGED <<exc, timeout, streaming, ret_to, session, store, threads>>

\* the frame of wait_for_status is left: its locals are gone
Leave ==
    /\ timeout' = "None"
    /\ caller' = "none"
    /\ values' = {}
    /\ running' = FALSE
    /\ response' = "none"
    /\ json_data' = "none"
    /\ wfs_ret' = "none"

\* Accepted with the membership test dropped: the first reply ends the wait
AcceptedAny(v, vals) == TRUE

\* wait_for_status, line 562: json_data[key] in values
Accepted(v, vals) == v \in vals

\* wait_for_status, lines 557-563; an exception that is no URLError
\* leaves wait_for_status and reaches the constructor's caller or the
\* application
HandleResponse ==
    /\ pc = "wfs_response"
    /\ IF response = "URLError"
       THEN /\ wfs_ret' = Sentinel
            /\ pc' = "wfs_return"
            /\ UNCHANGED <<exc, timeout, caller, values, running, response, json_data>>
       ELSE IF response = "error"
       THEN /\ IF caller = "connect" THEN Raise("error")
               ELSE pc' = "idle" /\ UNCHANGED exc
            /\ Leave
       ELSE /\ json_data' = response
            /\ running' = ~Accepted(response, values)
            /\ pc' = "wfs_sleep"
            /\ UNCHANGED <<exc, timeout, caller, values, response, wfs_ret>>
    /\ UNCHANGED <<cal_ret, streaming, ret_to, session, store, threads>>

\* wait_for_status, lines 564-565 and the loop test of line 552
SleepAndLoop ==
    /\ pc = "wfs_sleep"
    /\ IF running
       THEN /\ pc' = "wfs_urlopen"
            /\ UNCHANGED wfs_ret
       ELSE /\ wfs_ret' = json_data
            /\ pc' = "wfs_return"
    /\ UNCHANGED <<caller, values, running, response, json_data, cal_ret>>
    /\ UNCHANGED <<exc, timeout, streaming, ret_to, session, store, threads>>

\* StatusIsOk as a test of truthiness: -1 and every status pass it
StatusIsOkTruthy(status) == TRUE

\* wait_until_status_is_ok, lines 580-583
StatusIsOk(status) == status = "ok"

\* wait_until_calibration_is_done, lines 571-576: what the loop does with
\* a status: it returns False or True, or neither branch is taken and
\* the loop goes round again
CalibrationOutcome(status) ==
    IF status \in CalibrationFailed THEN "False"
    ELSE IF status = "calibrated" THEN "True"
    ELSE "again"

\* back in the caller: wait_until_status_is_ok, __connect__ (108-112) and
\* __init__ (96-97); wait_until_calibration_is_done (570-576), which
\* returns or calls wait_for_status again; or the application after
\* wait_for_recording_status
Returned ==
    /\ pc = "wfs_return"
    /\ IF caller = "connect"
       THEN /\ IF StatusIsOk(wfs_ret)
               THEN pc' = "idle" /\ UNCHANGED exc
               ELSE Raise("ConnectionError")
            /\ Leave
            /\ UNCHANGED cal_ret
       ELSE IF caller = "calibration"
       THEN IF CalibrationOutcome(wfs_ret) = "again"
            THEN /\ CallWaitForStatus("calibration", CalibrationStates, timeout)
                 /\ UNCHANGED exc
            ELSE /\ cal_ret' = CalibrationOutcome(wfs_ret)
                 /\ pc' = "cal_return"
                 /\ Leave
                 /\ UNCHANGED exc
       ELSE /\ pc' = "idle"
            /\ Leave
            /\ UNCHANGED <<exc, cal_ret>>
    /\ UNCHANGED <<streaming, ret_to, session, store, threads>>

\* wait_until_calibration_is_done, called by the application (between
\* two streaming sessions, as wait_for_recording_status is)
WaitUntilCalibrationIsDone ==
    /\ pc = "idle"
    /\ ~streaming
    /\ \E t \in {"None", "given"} :
         CallWaitForStatus("calibration", CalibrationStates, t)
    /\ UNCHANGED <<exc, streaming, ret_to, session, store, threads>>

\* the application has the value wait_until_calibration_is_done returned
CalibrationReturned ==
    /\ pc = "cal_return"
    /\ pc' = "idle"
    /\ cal_ret' = "none"
    /\ UNCHANGED <<caller, values, running, response, json_data, wfs_ret>>
    /\ UNCHANGED <<exc, timeout, streaming, ret_to, session, store, threads>>

\* wait_for_recording_status, called by the application (between two
\* streaming sessions: the wait shares no state with the threads)
WaitForRecordingStatus ==
    /\ pc = "idle"
    /\ ~streaming
    /\ \E vals \in StatusArrays, t \in {"None", "given"} :
         CallWaitForStatus("api", vals, t)
    /\ UNCHANGED <<exc, streaming, ret_to, session, store, threads>>

\* ----------------------------------------------------------- threads
Kinds == {"td", "tg", "tv"}

\* a thread that has ended: its loop ended, or an exception ended it
DeadPcs == {"exited", "timeout", "raised"}

Alive(k) ==
    (IF thread[k] \in DeadPcs \cup {"none"} THEN 0 ELSE 1)
    + Cardinality({i \in 1..Len(orphans) : orphans[i].kind = k})

Remove(seq, i) == SubSeq(seq, 1, i - 1) \o SubSeq(seq, i + 1, Len(seq))

\* a thread of kind k goes from one place to another
Move(k, from, to) ==
    \/ /\ thread[k] = from
       /\ thread' = [thread EXCEPT ![k] = to]
       /\ UNCHANGED orphans
    \/ /\ \E i \in 1..Len(orphans) :
            /\ orphans[i] = [kind |-> k, pc |-> from]
            /\ orphans' = IF to \in DeadPcs THEN Remove(orphans, i)
                          ELSE [orphans EXCEPT ![i].pc = to]
       /\ UNCHANGED thread

\* a thread of kind k is at that place
At(k, place) ==
    \/ thread[k] = place
    \/ \E i \in 1..Len(orphans) : orphans[i] = [kind |-> k, pc |-> place]

SocketOf(k) == IF k = "tv" THEN video_socket ELSE data_socket

\* one more send or receive of a thread of kind k is counted when the
\* flag is false
Count(k) ==
    late' = IF ~streaming /\ late[k] < MaxLate THEN [late EXCEPT ![k] = @ + 1]
            ELSE late

\* KeepaliveTest without the test of the flag
KeepaliveTestNoFlag(k) ==
    /\ Move(k, "test", "send")
    /\ UNCHANGED <<pc, exc, timeout, streaming, ret_to, session, store, wfs, late>>

\* __send_keepalive_msg__, line 287: the loop test
KeepaliveTest(k) ==
    /\ Move(k, "test", IF streaming THEN "send" ELSE "exited")
    /\ UNCHANGED <<pc, exc, timeout, streaming, ret_to, session, store, wfs, late>>

\* __send_keepalive_msg__, line 288: sendto, which may raise
KeepaliveSend(k) ==
    /\ \E sent \in BOOLEAN :
         IF SocketOf(k) = "open" /\ sent
         THEN Move(k, "send", "sleep") /\ Count(k)
         ELSE Move(k, "send", "raised") /\ UNCHANGED late
    /\ UNCHANGED <<pc, exc, timeout, streaming, ret_to, session, store, wfs>>

\* __send_keepalive_msg__, line 289
KeepaliveSleep(k) ==
    /\ Move(k, "sleep", "test")
    /\ UNCHANGED <<pc, exc, timeout, streaming, ret_to, session, store, wfs, late>>

\* __grab_data__, line 167
GrabSleep ==
    /\ Move("tg", "grace", "test")
    /\ UNCHANGED <<pc, exc, timeout, streaming, ret_to, session, store, wfs, late>>

\* GrabTest without the test of the flag
GrabTestNoFlag ==
    /\ Move("tg", "test", "recv")
    /\ UNCHANGED <<pc, exc, timeout, streaming, ret_to, session, store, wfs, late>>

\* __grab_data__, line 168: the loop test
GrabTest ==
    /\ Move("tg", "test", IF streaming THEN "recv" ELSE "exited")
    /\ UNCHANGED <<pc, exc, timeout, streaming, ret_to, session, store, wfs, late>>

\* the datagrams of the stream
Datagrams ==
    { MkMsg({"gp"}, [f \in {"ts", "s"} |-> IF f = "ts" THEN t ELSE 0]) :
        t \in 0..MaxStreamTs }

\* __grab_data__, line 173: "except socket.timeout", where socket is the
\* parameter of __grab_data__, the socket object, not the module. Its
\* timeout attribute is no exception class, so the clause matches no
\* exception (it raises TypeError itself) and lines 174-175 never run.
HandlerCatches(e) == FALSE

\* __grab_data__, lines 170-172: a datagram is received, parsed and
\* merged; an exception that __refresh_data__ lets out ends the thread as
\* those of GrabRaises do
GrabDatagram ==
    /\ At("tg", "recv")
    /\ data_socket = "open"
    /\ \E m \in Datagrams :
         \E r \in {Refresh(data, m)} :
           /\ jsondata' = m
           /\ data' = r.d
           /\ refresh_exc' = r.exc
           /\ Move("tg", "recv", IF r.exc = "none" THEN "test" ELSE "raised")
    /\ Count("tg")
    /\ UNCHANGED <<pc, exc, timeout, streaming, ret_to, session, ncalls, wfs>>

\* __grab_data__, lines 170-175: recvfrom raises socket.timeout, or
\* OSError on a closed socket, or json.loads raises ValueError
GrabRaises ==
    /\ \E e \in {"socket.timeout", "ValueError", "OSError"} :
         /\ e = "OSError" <=> data_socket # "open"
         /\ IF HandlerCatches(e)
            THEN /\ streaming' = FALSE
                 /\ Move("tg", "recv", "test")
            ELSE /\ Move("tg", "recv", IF e = "socket.timeout" THEN "timeout"
                                       ELSE "raised")
                 /\ UNCHANGED streaming
    /\ UNCHANGED <<pc, exc, timeout, ret_to, session, store, wfs, late>>

\* ------------------------------------------------------- the session
\* is_streaming() is false: the application starts streaming only then
MayStart == ~streaming

\* StartStreaming that starts the video keepalive thread in every case
StartStreamingAlwaysVideo ==
    /\ pc = "idle"
    /\ MayStart
    /\ streaming' = TRUE
    /\ orphans' = orphans \o
         SelectSeq(<<[kind |-> "td", pc |-> thread.td],
                     [kind |-> "tg", pc |-> thread.tg],
                     [kind |-> "tv", pc |-> thread.tv]>>,
                   LAMBDA t : t.pc \notin DeadPcs \cup {"none"})
    /\ thread' = [td |-> "test", tg |-> "grace", tv |-> "test"]
    /\ late' = [k \in Kinds |-> 0]
    /\ UNCHANGED <<pc, exc, timeout, ret_to, session, store, wfs>>

\* start_streaming, with __start_streaming__
StartStreaming ==
    /\ pc = "idle"
    /\ MayStart
    /\ streaming' = TRUE
    /\ orphans' = orphans \o
         SelectSeq(<<[kind |-> "td", pc |-> thread.td],
                     [kind |-> "tg", pc |-> thread.tg]>>
                   \o (IF video_scene THEN <<[kind |-> "tv", pc |-> thread.tv]>>
                       ELSE <<>>),
                   LAMBDA t : t.pc \notin DeadPcs \cup {"none"})
    /\ thread' = [td |-> "test", tg |-> "grace",
                  tv |-> IF video_scene THEN "test" ELSE thread.tv]
    /\ late' = [k \in Kinds |-> 0]
    /\ UNCHANGED <<pc, exc, timeout, ret_to, session, store, wfs>>

\* StopStreaming that clears the flag and returns without the joins
StopStreamingNoJoin ==
    /\ pc = "idle"
    /\ streaming' = FALSE
    /\ UNCHANGED <<pc, ret_to>>
    /\ UNCHANGED <<exc, timeout, session, store, threads, wfs>>

\* stop_streaming, lines 535-536; the joins follow
StopStreaming ==
    /\ pc = "idle"
    /\ IF streaming
       THEN /\ streaming' = FALSE
            /\ pc' = "join_td"
            /\ ret_to' = "idle"
       ELSE UNCHANGED <<pc, streaming, ret_to>>
    /\ UNCHANGED <<exc, timeout, session, store, threads, wfs>>

\* where the application goes after join k
AfterJoin(k) ==
    IF k = "td" THEN "join_tg"
    ELSE IF k = "tg" /\ video_scene THEN "join_tv"
    ELSE ret_to

\* Join that does not wait for the thread
JoinNoWait(k) ==
    /\ pc = "join_" \o k
    /\ pc' = AfterJoin(k)
    /\ UNCHANGED <<exc, timeout, streaming, ret_to, session, store, threads, wfs>>

\* stop_streaming, lines 537-540: join returns once the thread has ended
Join(k) ==
    /\ pc = "join_" \o k
    /\ thread[k] \in DeadPcs
    /\ pc' = AfterJoin(k)
    /\ UNCHANGED <<exc, timeout, streaming, ret_to, session, store, threads, wfs>>

\* Close that does not stop the streaming first
CloseNoStop ==
    /\ pc = "idle"
    /\ address # NoAddress
    /\ pc' = "disconnect"
    /\ UNCHANGED <<streaming, ret_to>>
    /\ UNCHANGED <<exc, timeout, session, store, threads, wfs>>

\* close, lines 311-313
Close ==
    /\ pc = "idle"
    /\ address # NoAddress
    /\ IF streaming
       THEN /\ streaming' = FALSE
            /\ pc' = "join_td"
            /\ ret_to' = "disconnect"
       ELSE /\ pc' = "disconnect"
            /\ UNCHANGED <<streaming, ret_to>>
    /\ UNCHANGED <<exc, timeout, session, store, threads, wfs>>

\* __disconnect__
Disconnect ==
    /\ pc = "disconnect"
    /\ data_socket' = "closed"
    /\ video_socket' = IF video_scene THEN "closed" ELSE video_socket
    /\ pc' = "closed"
    /\ UNCHANGED <<address, iface_name, video_scene, found, disc>>
    /\ UNCHANGED <<exc, timeout, streaming, ret_to, store, threads, wfs>>

\* ------------------------------------------------ the specifications
Construct ==
    \/ CtorBegin
    \/ DiscoverBegin
    \/ DiscoverInterface
    \/ Discovered
    \/ SetUrl
    \/ ConnectDataSocket
    \/ ConnectVideoSocket
    \/ ConnectWait

WaitForStatus ==
    \/ Urlopen
    \/ HandleResponse
    \/ SleepAndLoop
    \/ Returned

Keepalive(k) ==
    \/ KeepaliveTest(k)
    \/ KeepaliveSend(k)
    \/ KeepaliveSleep(k)

GrabData ==
    \/ GrabSleep
    \/ GrabTest
    \/ GrabDatagram
    \/ GrabRaises

Joins ==
    \/ Join("td")
    \/ Join("tg")
    \/ Join("tv")

Next ==
    \/ Construct
    \/ WaitForStatus
    \/ WaitForRecordingStatus
    \/ WaitUntilCalibrationIsDone
    \/ CalibrationReturned
    \/ StartStreaming
    \/ StopStreaming
    \/ Joins
    \/ Close
    \/ Disconnect
    \/ Keepalive("td")
    \/ Keepalive("tv")
    \/ GrabData

Spec == Init /\ [][Next]_vars

\* The threads run, a blocking receive returns or times out, a sleep ends,
\* and an HTTP request that was given a timeout returns or raises.
LiveSpec ==
    /\ Spec
    /\ WF_vars(Construct)
    /\ WF_vars(Urlopen /\ timeout = "given")
    /\ WF_vars(HandleResponse \/ SleepAndLoop \/ Returned)
    /\ WF_vars(Joins \/ Disconnect)
    /\ WF_vars(Keepalive("td"))
    /\ WF_vars(Keepalive("tv"))
    /\ WF_vars(GrabData)

\* a caller hands a message to __refresh_data__
RefreshCall ==
    /\ ncalls < MaxMerges
    /\ \E m \in Messages :
         \E r \in {Refresh(data, m)} :
           /\ jsondata' = m
           /\ data' = r.d
           /\ refresh_exc' = r.exc
    /\ ncalls' = ncalls + 1
    /\ UNCHANGED <<pc, exc, timeout, streaming, ret_to, session, threads, wfs>>

MergeNext == RefreshCall

\* the snapshot as __init__ sets it up, for one choice of the arguments
MergeInit ==
    /\ Init
    /\ address = [ip |-> "v4", scope |-> ""]
    /\ ~video_scene
    /\ timeout = "None"

MergeSpec == MergeInit /\ [][MergeNext]_vars

\* ------------------------------------------------------------ claims
\* the channel slots of the snapshot, as paths into self.data
Slots ==
    {<<"mems", "gy">>, <<"mems", "ac">>,
     <<"left_eye", "pc">>, <<"left_eye", "pd">>, <<"left_eye", "gd">>,
     <<"right_eye", "pc">>, <<"right_eye", "pd">>, <<"right_eye", "gd">>,
     <<"gp">>, <<"gp3">>, <<"pts">>, <<"vts">>}

Get(d, p) == IF Len(p) = 2 THEN d[p[1]][p[2]] ELSE d[p[1]]

SlotKey(p) == p[Len(p)]

\* message m is addressed to slot p: it has the slot's key and, for a slot
\* of an eye, its eye field names that eye
AddressedTo(m, p) ==
    /\ SlotKey(p) \in DOMAIN m
    /\ p[1] \in {"left_eye", "right_eye"} =>
         /\ "eye" \in DOMAIN m
         /\ p[1] = (IF m["eye"] = "left" THEN "left_eye"
                    ELSE IF m["eye"] = "right" THEN "right_eye" ELSE "none")

Stale(m, stored) == "ts" \in DOMAIN m /\ m["ts"] <= stored["ts"]

Invalid(m) == "s" \in DOMAIN m /\ m["s"] # 0

Fresh(m, stored) ==
    /\ "ts" \in DOMAIN m /\ m["ts"] > stored["ts"]
    /\ "s" \in DOMAIN m /\ m["s"] = 0

\* C1: over every sequence of merge calls the ts stored in each slot never
\* decreases, and a call whose message is stale for a slot (ts <= stored ts)
\* or has a status other than 0 leaves that slot's sample unchanged.
C1_TsNeverDecreases ==
    [][\A p \in Slots :
         /\ Get(data', p)["ts"] >= Get(data, p)["ts"]
         /\ (Stale(jsondata', Get(data, p)) \/ Invalid(jsondata'))
              => Get(data', p) = Get(data, p)]_vars

\* a valid gp message older than the stored gp sample has been handed in
C1_Witness ==
    /\ ncalls = 2
    /\ "gp" \in DOMAIN jsondata /\ "ts" \in DOMAIN jsondata
    /\ "s" \in DOMAIN jsondata /\ jsondata["s"] = 0
    /\ 0 <= jsondata["ts"] /\ jsondata["ts"] < data.gp["ts"]

\* C5: one merge call with a valid message (s = 0) leaves every slot the
\* message is addressed to, and whose stored ts is lower than the
\* message's, holding that whole message.
C5_AllAddressedSlotsUpdated ==
    [][\A p \in Slots :
         (AddressedTo(jsondata', p) /\ Fresh(jsondata', Get(data, p)))
           => Get(data', p) = jsondata']_vars

\* one message with the keys gp and pc and eye = "left" has updated the
\* slot of gp and the slot of the left eye's pc
C5_Witness ==
    /\ ncalls = 1
    /\ data.gp = jsondata /\ data.left_eye.pc = jsondata
    /\ data.right_eye.pc = nd

\* C6: a merge call never changes a slot whose key is absent from the
\* message; a message with eye = "left" changes no right_eye slot and a
\* message with eye = "right" changes no left_eye slot.
C6_UnaddressedSlotsUnchanged ==
    [][\A p \in Slots :
         \/ Get(data', p) = Get(data, p)
         \/ /\ SlotKey(p) \in DOMAIN jsondata'
            /\ p[1] = "right_eye" =>
                 ~("eye" \in DOMAIN jsondata' /\ jsondata'["eye"] = "left")
            /\ p[1] = "left_eye" =>
                 ~("eye" \in DOMAIN jsondata' /\ jsondata'["eye"] = "right")]_vars

\* a left-eye message with all three eye keys was merged: the left slots
\* hold it, the right slots and gp still hold the initial sample
C6_Witness ==
    /\ ncalls = 1
    /\ data.left_eye.pc = jsondata /\ data.left_eye.gd = jsondata
    /\ data.right_eye.pc = nd /\ data.right_eye.gd = nd
    /\ data.gp = nd

JoinPcs == {"join_td", "join_tg", "join_tv"}

WfsPcs == {"wfs_urlopen", "wfs_response", "wfs_sleep", "wfs_return"}

\* the constructor has not returned or raised yet
InCtor ==
    \/ pc \in {"init", "discover", "discover_iface", "discovered", "set_url", "connect",
               "connect_video", "connect_wait"}
    \/ pc \in WfsPcs /\ caller = "connect"

NoThreadAlive == \A k \in Kinds : Alive(k) = 0

\* C2: when the receive of the receive thread has timed out, the thread
\* has set the streaming flag to false and has ended.
C2_TimeoutClearsFlag == thread.tg = "timeout" => ~streaming

\* C3: once stop_streaming has set the flag to false, it returns, and when
\* it returns the flag is false and no thread is alive.
C3_StopTerminates ==
    /\ (pc = "join_td") ~> (pc \notin JoinPcs)
    /\ [][(pc \in JoinPcs /\ pc' \notin JoinPcs)
            => (~streaming' /\ NoThreadAlive')]_vars

\* stop_streaming has returned after the keepalive thread and the receive
\* thread saw the flag false and left their loops
C3_Witness ==
    /\ pc = "idle" /\ ~streaming
    /\ thread.td = "exited" /\ thread.tg = "exited"
    /\ video_scene /\ thread.tv = "exited"

\* C4: at any time at most one keepalive thread, one receive thread and one
\* video keepalive thread are alive.
C4_OneSessionAlive == \A k \in Kinds : Alive(k) <= 1

\* a second session runs: its receive thread has received nothing yet,
\* the sample in the snapshot came in during an earlier session
C4_Witness ==
    /\ streaming
    /\ thread.td = "sleep" /\ thread.tg = "grace"
    /\ data.gp["ts"] >= 0

\* C7: once close() has closed the sockets, the streaming flag is false and
\* no thread is alive, so that no thread sends or receives on a closed
\* socket; when close() has returned every socket is closed.
C7_CloseStopsThenCloses ==
    /\ (data_socket = "closed" \/ video_socket = "closed")
         => (~streaming /\ NoThreadAlive)
    /\ pc = "closed"
         => /\ data_socket = "closed"
            /\ video_scene => video_socket = "closed"

\* close() was called while the flag was still true after a receive had
\* timed out: it has stopped the keepalive threads and closed both sockets
C7_Witness ==
    /\ pc = "closed"
    /\ thread.tg = "timeout" /\ thread.td = "exited" /\ thread.tv = "exited"
    /\ video_socket = "closed"

\* C8: the constructor returns normally only from a status poll that gave
\* "ok", with an address known; when discovery returns no address, or the
\* poll returns anything else than "ok", it raises ConnectionError; when it
\* has raised, nothing streams; discovery runs only when no address was
\* given.
C8_ConstructionOutcome ==
    [][/\ (pc = "wfs_return" /\ caller = "connect")
            => IF wfs_ret = "ok"
               THEN pc' = "idle" /\ address' # NoAddress
               ELSE pc' = "raised" /\ exc' = "ConnectionError"
       /\ (InCtor /\ pc' = "idle")
            => (pc = "wfs_return" /\ wfs_ret = "ok" /\ address # NoAddress)
       /\ (pc = "discovered" /\ found.address = NoAddress)
            => (pc' = "raised" /\ exc' = "ConnectionError")
       /\ (pc' = "discover" /\ pc # "discover")
            => (pc = "init" /\ address = NoAddress)
       /\ pc' = "raised"
            => (~streaming' /\ \A k \in Kinds : thread'[k] = "none")]_vars

\* the sockets were made and the constructor raised ConnectionError: the
\* status poll did not give "ok"
C8_Witness ==
    /\ pc = "raised" /\ exc = "ConnectionError"
    /\ data_socket = "open"

\* C9: with a connect timeout, the status poll of the constructor comes to
\* an end: the constructor returns or raises.
C9_ConnectTerminates ==
    (pc = "wfs_urlopen" /\ caller = "connect" /\ timeout = "given")
      ~> (pc \in {"idle", "raised"})

C11_DiscoveryErrorsSwallowed ==
    [][(pc = "discover_iface")
         => /\ pc' # "raised"
            /\ (idx <= Len(interfaces) /\ interfaces[idx] # "reply")
                 => (pc' = "discover_iface" /\ idx' = idx + 1)
            /\ (idx <= Len(interfaces) /\ interfaces[idx] = "reply")
                 => (pc' = "discovered" /\ found'.address # NoAddress)
            /\ idx > Len(interfaces)
                 => (pc' = "discovered" /\ found'.address = NoAddress)]_vars

\* C12: an error inside a thread of the stream (a datagram that is no
\* JSON in the receive thread, a send that fails in a keepalive thread) is
\* caught inside the thread and does not end it: while the streaming flag
\* is true no thread has been ended by such an error.
C12_DutyErrorsCaught ==
    streaming => \A k \in Kinds : thread[k] # "raised"

\* C13: pv is a channel as the others are: after a merge call with a
\* message that has the key pv, status 0 and a ts above the ts of the pv
\* sample kept so far (if any), the snapshot holds that message as the
\* pv sample.
C13_PvStored ==
    [][(/\ ncalls' = ncalls + 1
        /\ "pv" \in DOMAIN jsondata'
        /\ "ts" \in DOMAIN jsondata' /\ jsondata'["ts"] >= 0
        /\ "s" \in DOMAIN jsondata' /\ jsondata'["s"] = 0
        /\ "pv" \in DOMAIN data => data.pv["ts"] < jsondata'["ts"])
         => ("pv" \in DOMAIN data' /\ data'.pv = jsondata')]_vars

\* the message has an eye channel but no eye field that names an eye
NoUsableEye(m) ==
    /\ DOMAIN m \cap EyeKeys # {}
    /\ "eye" \in DOMAIN m => m["eye"] \notin {"left", "right"}

\* C14: the merge attempts of one call are independent: __refresh_data__
\* raises nothing, whatever the message lacks (ts, s, eye) or holds (an
\* eye that names none, a ts that is no number), and a channel that cannot
\* be merged does not keep the other channels of the message from being
\* updated: a valid message with an eye channel and no usable eye field
\* updates every other slot it is fresh for and changes no slot of an eye.
C14_MergeIsFailureIsolated ==
    [][(ncalls' = ncalls + 1)
         => /\ refresh_exc' = "none"
            /\ NoUsableEye(jsondata')
                 => \A p \in Slots :
                      IF p[1] \in {"left_eye", "right_eye"}
                      THEN Get(data', p) = Get(data, p)
                      ELSE (/\ SlotKey(p) \in DOMAIN jsondata'
                            /\ Fresh(jsondata', Get(data, p)))
                             => Get(data', p) = jsondata']_vars

\* a valid message with gp and pc and no eye field was merged: gp holds
\* it, the pc slots of both eyes hold the initial sample
C14_Witness ==
    /\ ncalls = 1
    /\ refresh_exc = "none"
    /\ {"gp", "pc"} \subseteq DOMAIN jsondata /\ "eye" \notin DOMAIN jsondata
    /\ data.gp = jsondata
    /\ data.left_eye.pc = nd /\ data.right_eye.pc = nd

\* C15: __mksock__ binds to the interface only when the peer is IPv6 and
\* an interface name came with the address; for an IPv4 peer, or an IPv6
\* peer with no interface name, no bind is attempted and the socket is
\* returned; a bind that fails is not fatal: the bind never makes
\* __mksock__ raise.
C15_BindOnlyWithInterfaceName ==
    [][(pc \in {"connect", "connect_video"})
         => /\ BindAttempted => (address.ip = "v6" /\ iface_name # "None")
            /\ exc' # "TypeError"]_vars

\* C16: wait_until_calibration_is_done returns True only after the status
\* "calibrated" was polled and False only after "uncalibrated", "stale" or
\* "failed" was polled; when a request fails (wait_for_status gives -1)
\* the wait is given up: the call returns instead of polling again.
C16_CalibrationWaitResult ==
    [][(pc = "wfs_return" /\ caller = "calibration")
         => /\ cal_ret' = "True" => (json_data = "calibrated" /\ wfs_ret = json_data)
            /\ cal_ret' = "False"
                 => (json_data \in CalibrationFailed /\ wfs_ret = json_data)
            /\ wfs_ret = Sentinel => pc' = "cal_return"]_vars

\* C17: the threads test the flag once per turn of their loops: once the
\* flag is false the keepalive threads send at most one more message and
\* the receive thread receives and merges at most one more datagram, and
\* a thread that finds the flag false at its test ends: it starts no new
\* turn.
C17_CooperativeCancellation ==
    [][\A k \in Kinds :
         /\ late'[k] <= 1
         /\ (thread[k] = "test" /\ ~streaming /\ thread'[k] # thread[k])
              => thread'[k] = "exited"]_vars

\* stop_streaming cleared the flag while the keepalive thread was about
\* to send and the receive thread was receiving: each did that once more
\* and then ended
C17_Witness ==
    /\ ~streaming
    /\ late.td = 1 /\ late.tg = 1
    /\ thread.td = "exited" /\ thread.tg = "exited"

\* C18: start_streaming sets the flag and starts exactly one keepalive
\* thread and one receive thread, and a video keepalive thread if and only
\* if video_scene is set; stop_streaming returns only when the video
\* keepalive thread, if there is one, has ended as the other two have.
C18_StartSpawnsDuties ==
    [][/\ (~streaming /\ streaming')
            => /\ thread'.td = "test" /\ Alive("td")' = 1
               /\ thread'.tg = "grace" /\ Alive("tg")' = 1
               /\ Alive("tv")' = (IF video_scene THEN 1 ELSE 0)
               /\ video_scene => thread'.tv = "test"
               /\ ~video_scene => thread'.tv = thread.tv
       /\ (pc \in JoinPcs /\ pc' \notin JoinPcs)
            => /\ thread.td \in DeadPcs /\ thread.tg \in DeadPcs
               /\ video_scene => (pc = "join_tv" /\ thread.tv \in DeadPcs)]_vars

\* start_streaming has just returned on a controller with video_scene:
\* the three threads are there and none has made a step
C18_Witness ==
    /\ pc = "idle" /\ streaming /\ video_scene
    /\ thread = [td |-> "test", tg |-> "grace", tv |-> "test"]

\* a session was started, and the stop_streaming that cleared its flag
\* has returned
Stopped ==
    /\ ~streaming
    /\ pc \notin JoinPcs
    /\ thread.td # "none"

\* C19: from the return of a stop_streaming that cleared the flag until
\* the next start_streaming no thread makes a step: no keepalive message
\* is sent, no datagram is merged, and the snapshot get_data() returns
\* stays as it is.
C19_QuiescentAfterStop ==
    [][(Stopped /\ ~streaming')
         => /\ data' = data
            /\ thread' = thread /\ orphans' = orphans
            /\ late' = late]_vars

\* stop_streaming has returned on a controller without video_scene whose
\* stream had brought a sample; the application goes on to poll a status
C19_Witness ==
    /\ ~streaming /\ ~video_scene
    /\ pc = "wfs_urlopen"
    /\ thread.td = "exited" /\ thread.tg = "exited"
    /\ data.gp["ts"] >= 0

\* C20: at any time every slot of the snapshot holds the initial sample
\* (ts = -1) or a whole message that was handed in, one with s = 0 and
\* the key of the slot and, in a slot of an eye, with the eye field that
\* names this eye: no part of a message and no message of another status
\* is ever seen in a slot.
C20_SlotsHoldValidMessages ==
    \A p \in Slots :
      \/ Get(data, p) = nd
      \/ /\ Get(data, p) \in Messages
         /\ SlotKey(p) \in DOMAIN Get(data, p)
         /\ "ts" \in DOMAIN Get(data, p) /\ Get(data, p)["ts"] >= 0
         /\ "s" \in DOMAIN Get(data, p) /\ Get(data, p)["s"] = 0
         /\ p[1] \in {"left_eye", "right_eye"}
              => /\ "eye" \in DOMAIN Get(data, p)
                 /\ Get(data, p)["eye"] \o "_eye" = p[1]

\* a message of the right eye with status 1 was handed in after a valid
\* one: the slots of the right eye hold the valid one, those of the left
\* eye the initial sample
C20_Witness ==
    /\ ncalls = 2
    /\ "gd" \in DOMAIN jsondata
    /\ "s" \in DOMAIN jsondata /\ jsondata["s"] = 1
    /\ "eye" \in DOMAIN jsondata /\ jsondata["eye"] = "right"
    /\ data.right_eye.gd # nd /\ data.right_eye.gd # jsondata
    /\ data.left_eye.gd = nd
====
